---------------------------- MODULE Spec2Model ----------------------------
(***************************************************************************)
(* Model of labtools: the frequency-response sweep (tasks/freqresp.py) and *)
(* the single-frequency DFT of the DS1054Z driver                          *)
(* (instruments/DS1054Z.py).                                               *)
(*                                                                         *)
(* Six specifications share the variables:                                 *)
(*   Spec         the sweep: freqresp_iter (a generator) and its three     *)
(*                callers, with a measure callback that returns or raises  *)
(*   SpecPhase    the phase-delta expression of measure_response           *)
(*   SpecDft      DS1054Z.dft_at_freq, statement by statement              *)
(*   SpecMeasure  measure_response, instrument command by command          *)
(*   SpecList     the frequency list of freqresp_iter, linear and          *)
(*                logarithmic                                              *)
(*   SpecFetch    DS1054Z.fetch_data_raw, block by block                   *)
(*                                                                         *)
(* Floating point values that can be non-finite are pairs <<n, d>> in      *)
(* lowest terms: d > 0 is the rational n/d, <<1, 0>> is +inf, <<-1, 0>> is *)
(* -inf and <<0, 0>> is NaN.                                               *)
(***************************************************************************)
EXTENDS Integers, Sequences, FiniteSets, TLC

VARIABLES
    \* ---- the sweep (tasks/freqresp.py, freqresp_iter and its callers)
    mode,       \* entry point: "iter" (freqresp_iter used directly), "freqresp", "cli"
    freqs,      \* the frequency list of freqresp_iter
    pos,        \* number of frequencies the generator's for loop has taken
    gen,        \* generator: "none", "created", "yielded", "returned", "raised", "closed"
    calls,      \* log of the calls of measure: [freq, ok, a, p]
    row,        \* the caller's loop variable: <<>> or <<row>> not yet processed
    yielded,    \* every row the generator has yielded, in order
    data,       \* freqresp: the list data
    result,     \* freqresp: <<>> or <<table>> once it has returned
    printed,    \* freqresp_cli: the lines echoed
    received,   \* "iter": the rows the direct caller has taken
    caller,     \* "start", "looping", "returned", "raised", "stopped"
    err,        \* <<>> or <<exception>> that reached the caller
    \* ---- the phase delta (measure_response, line 39)
    p1, p2,     \* the channel phases, whole degrees
    phase_delta,\* <<>> or <<delta>>
    \* ---- dft_at_freq (instruments/DS1054Z.py)
    dpc,        \* position in dft_at_freq
    dfreq,      \* freq, Hz
    drate,      \* 1 / sample_interval, samples per second
    datalen,    \* len(data)
    samples_per_period,
    periods,
    samples,
    divisors,   \* every divisor dft_at_freq has divided by, in order
    linspace,   \* <<>> or <<[start, stop, num]>>: the arguments of numpy.linspace
    dout,       \* <<>>, <<"return">> or <<"raise", message>>
    \* ---- measure_response (tasks/freqresp.py)
    mpc,        \* line of measure_response about to run, 0 once it has ended
    mfreq,      \* freq
    autorange,  \* the autorange flag
    cmds,       \* every instrument command and sleep, in order
    acq,        \* scope acquisition state: "run" or "stop"
    chanscale,  \* the scope's vertical scale per channel, mV/div
    peak,       \* autorange: peak absolute value per channel, mV
    dftres,     \* dft_at_freq results per channel: <<amplitude, phase>>
    mret,       \* <<>>, <<"return", ratio, phase_delta>> or <<"raise", message>>
    \* ---- the frequency list of freqresp_iter (tasks/freqresp.py, lines 47-54)
    gpc,        \* "args" before the list is made, "done" after, "none" when idle
    freq_min,   \* Hz
    freq_max,   \* Hz
    log_stepsdec,
    lin_interval, \* Hz; 0 stands for None (both take the logarithmic branch)
    genfreqs,   \* the list made: Hz in linear mode, 1/100 Hz in logarithmic mode
    \* ---- fetch_data_raw (instruments/DS1054Z.py)
    fpc,        \* "setup", "loop", "done", "none" when idle
    fstart,     \* start
    fend,       \* end
    bstart,     \* blockstart of the next iteration of the block loop
    requests    \* the blocks asked for, in order: <<WAV:START, WAV:STOP>>

sweepVars == <<mode, freqs, pos, gen, calls, row, yielded, data, result,
               printed, received, caller, err>>
phaseVars == <<p1, p2, phase_delta>>
dftVars == <<dpc, dfreq, drate, datalen, samples_per_period, periods, samples,
             divisors, linspace, dout>>
measVars == <<mpc, mfreq, autorange, cmds, acq, chanscale, peak, dftres, mret>>
listVars == <<gpc, freq_min, freq_max, log_stepsdec, lin_interval, genfreqs>>
fetchVars == <<fpc, fstart, fend, bstart, requests>>
vars == <<sweepVars, phaseVars, dftVars, measVars, listVars, fetchVars>>

---------------------------------------------------------------------------
(* Bounds *)

\* longest frequency list of a sweep
MaxPoints == 3
\* the highest frequency bound of a sweep is MaxFreqMin + 2 * MaxPoints
MaxFreqMin == 2
\* dft_at_freq: largest sample rate (1 / sample_interval), samples per second
MaxRate == 24
\* dft_at_freq: largest frequency, Hz
MaxDftFreq == 4
\* dft_at_freq: longest capture buffer, samples
MaxLen == 12

---------------------------------------------------------------------------
(* Arithmetic helpers *)

Abs(x) == IF x < 0 THEN -x ELSE x

RECURSIVE GCD(_, _)
GCD(a, b) == IF b = 0 THEN a ELSE GCD(b, a % b)

RECURSIVE Pow(_, _)
Pow(b, e) == IF e = 0 THEN 1 ELSE b * Pow(b, e - 1)

NaN == <<0, 0>>
Inf == <<1, 0>>
NegInf == <<-1, 0>>

\* the rational n/d, d > 0, in lowest terms
Frac(n, d) == LET g == GCD(Abs(n), d) IN <<n \div g, d \div g>>

IsFinite(x) == x[2] > 0

\* numpy.float64 division: a zero divisor gives inf or NaN (a warning), never
\* an exception
Divide(a, b) ==
    IF b = 0
    THEN (IF a = 0 THEN NaN ELSE IF a > 0 THEN Inf ELSE NegInf)
    ELSE Frac(a, b)

\* math.log10 raises ValueError ("math domain error") for zero, negative and
\* -inf arguments; NaN and +inf pass through
Log10Raises(x) == (IsFinite(x) /\ x[1] <= 0) \/ x = NegInf

RECURSIVE LogUp(_, _, _)
LogUp(N, D, k) == IF Pow(10, k + 1) * D <= N THEN LogUp(N, D, k + 1) ELSE k

RECURSIVE LogDown(_, _, _)
LogDown(N, D, m) == IF Pow(10, m) * N >= D THEN m ELSE LogDown(N, D, m + 1)

\* 10.0 * math.log10(n/d) for n, d > 0, kept to its integer part (floor)
FloorTenLog10(n, d) ==
    LET N == Pow(n, 10)
        D == Pow(d, 10)
    IN  IF N >= D THEN LogUp(N, D, 0) ELSE -LogDown(N, D, 1)

\* dB = 10.0 * math.log10(a), for an a that math.log10 accepts
TenLog10(a) ==
    IF a = NaN THEN NaN
    ELSE IF a = Inf THEN Inf
    ELSE <<FloorTenLog10(a[1], a[2]), 1>>

---------------------------------------------------------------------------
(* measure_response: the return expressions *)

\* degrees of half a turn and of a full turn
HalfTurn == 180
FullTurn == 360

\* PhaseDelta without the offset that centres the result on zero
PhaseDeltaUncentred(q1, q2) == (q1 - q2) % FullTurn

\* PhaseDelta with the channels exchanged
PhaseDeltaExchanged(q1, q2) == (((q2 - q1) + HalfTurn) % FullTurn) - HalfTurn

\* phase_delta = ((p1 - p2) + 180.0) % 360.0 - 180.0; Python's % takes the
\* sign of the divisor, as TLA+'s does
PhaseDelta(q1, q2) == (((q1 - q2) + HalfTurn) % FullTurn) - HalfTurn

\* a1 / a2 of two numpy.float64 amplitudes
AmplitudeRatio(a1, a2) == Divide(a1, a2)

---------------------------------------------------------------------------
(* The sweep: freqresp_iter and its callers *)

\* numpy.arange(freq_min, freq_max, lin_interval) for whole numbers and a
\* non-zero interval: ceil((freq_max - freq_min) / lin_interval) values, none
\* when that is not positive; a negative interval counts down from freq_min
ArangeLen(lo, hi, step) ==
    IF step > 0
    THEN IF hi <= lo THEN 0 ELSE (hi - lo + step - 1) \div step
    ELSE IF hi >= lo THEN 0 ELSE (lo - hi + (-step) - 1) \div (-step)

\* a range that keeps the stop value when it falls on a step
ArangeInclusive(lo, hi, step) ==
    [k \in 1..(IF step > 0
               THEN (IF hi < lo THEN 0 ELSE (hi - lo) \div step + 1)
               ELSE (IF hi > lo THEN 0 ELSE (lo - hi) \div (-step) + 1))
        |-> lo + (k - 1) * step]

Arange(lo, hi, step) ==
    [k \in 1..ArangeLen(lo, hi, step) |-> lo + (k - 1) * step]

\* the frequency lists of the sweeps modelled: linear sweeps of at most
\* MaxPoints points
FreqLists ==
    LET all == {Arange(lo, hi, step) :
                    lo \in 1..MaxFreqMin,
                    hi \in 1..(MaxFreqMin + 2 * MaxPoints),
                    step \in 1..2}
    IN  {f \in all : Len(f) <= MaxPoints}

\* the channel amplitudes 4 * abs(dft) a DFT returns, in model units
Amplitudes == {0, 1, 2}

\* what a measure callback can return: measure_response returns
\* (a1 / a2, phase_delta) of two non-negative amplitudes; another callback
\* may return a negative ratio
MeasureRatios ==
    {AmplitudeRatio(a1, a2) : a1 \in Amplitudes, a2 \in Amplitudes} \cup {<<-1, 1>>}

MeasurePhases == {PhaseDelta(170, -170), PhaseDelta(180, 0)}

\* what a measure callback can raise at frequency f: the exceptions of
\* dft_at_freq, whose text holds the frequency, and a port timeout, whose
\* text does not
MeasureErrorKinds == {"too large timestep", "too small timestep", "timeout"}

MeasureError(k, f) ==
    IF k = "timeout"
    THEN [type |-> "VisaIOError", msg |-> k, freq |-> <<>>]
    ELSE [type |-> "Exception", msg |-> k, freq |-> <<f>>]

\* the exception of math.log10: its text names no frequency
MathDomainError == [type |-> "ValueError", msg |-> "math domain error", freq |-> <<>>]

\* MakeRow with dB = 20 * log10(a), the voltage-ratio convention
MakeRowTwentyLog(freq, a, p) ==
    [freq |-> freq, amplitude |-> a,
     dB |-> IF IsFinite(a) THEN <<FloorTenLog10(a[1] * a[1], a[2] * a[2]), 1>>
            ELSE TenLog10(a),
     phase |-> p]

\* yield {'freq': freq, 'amplitude': a, 'dB': dB, 'phase': p}
MakeRow(freq, a, p) ==
    [freq |-> freq, amplitude |-> a, dB |-> TenLog10(a), phase |-> p]

\* "%15.3f  %15.9f  %15.3f  %15.3f" % (freq, amplitude, dB, phase): the
\* fields in column order (the rounding to 3 and 9 decimals is not modelled)
FormatRow(r) == <<r.freq, r.amplitude, r.dB, r.phase>>

Header == <<"# Frequency(Hz)   Amplitude(abs)   Amplitude(dB)     Phase(deg)">>

\* GenRunnable of a producer that runs ahead of its consumer
GenRunnableEager ==
    /\ caller = "looping"
    /\ gen \in {"created", "yielded"}

\* A generator body runs only inside next(): the caller's for loop asks for
\* the next row when its body has finished with the previous one
GenRunnable ==
    /\ caller = "looping"
    /\ row = <<>>
    /\ gen \in {"created", "yielded"}

\* an exception leaves the for loop of the caller: neither freqresp nor
\* freqresp_cli catches it, and the locals of freqresp (data) go with it
Propagate(e) ==
    /\ gen' = "raised"
    /\ caller' = "raised"
    /\ err' = <<e>>

InitSweepIdle ==
    /\ mode = "none" /\ freqs = <<>> /\ pos = 0 /\ gen = "none"
    /\ calls = <<>> /\ row = <<>> /\ yielded = <<>> /\ data = <<>>
    /\ result = <<>> /\ printed = <<>> /\ received = <<>>
    /\ caller = "none" /\ err = <<>>

InitPhaseIdle == p1 = 0 /\ p2 = 0 /\ phase_delta = <<>>

InitDftIdle ==
    /\ dpc = "none" /\ dfreq = 1 /\ drate = 1 /\ datalen = 0
    /\ samples_per_period = 0 /\ periods = 0 /\ samples = 0
    /\ divisors = <<>> /\ linspace = <<>> /\ dout = <<>>

InitListIdle ==
    /\ gpc = "none" /\ freq_min = 1 /\ freq_max = 1 /\ log_stepsdec = 1
    /\ lin_interval = 0 /\ genfreqs = <<>>

InitFetchIdle ==
    /\ fpc = "none" /\ fstart = 1 /\ fend = 1 /\ bstart = 1 /\ requests = <<>>

InitMeasIdle ==
    /\ mpc = 0 /\ mfreq = 1 /\ autorange = FALSE /\ cmds = <<>>
    /\ acq = "run" /\ chanscale = <<0, 0>> /\ peak = <<0, 0>>
    /\ dftres = <<>> /\ mret = <<>>

Init ==
    /\ mode \in {"iter", "freqresp", "cli"}
    /\ freqs \in FreqLists
    /\ pos = 0
    /\ gen = "none"
    /\ calls = <<>>
    /\ row = <<>>
    /\ yielded = <<>>
    /\ data = <<>>
    /\ result = <<>>
    /\ printed = <<>>
    /\ received = <<>>
    /\ caller = "start"
    /\ err = <<>>
    /\ InitPhaseIdle /\ InitDftIdle /\ InitMeasIdle
    /\ InitListIdle /\ InitFetchIdle

\* the entry point runs up to its for loop: freqresp_cli echoes the header,
\* freqresp makes data = [], and calling freqresp_iter makes the generator
\* (none of its body runs yet)
Start ==
    /\ caller = "start"
    /\ caller' = "looping"
    /\ gen' = "created"
    /\ printed' = IF mode = "cli" THEN <<Header>> ELSE printed
    /\ UNCHANGED <<mode, freqs, pos, calls, row, yielded, data, result,
                   received, err>>
    /\ UNCHANGED <<phaseVars, dftVars, measVars, listVars, fetchVars>>

\* next(): measure returns (a, p), the logarithm is taken and the row is
\* yielded
GenYield(a, p) ==
    /\ GenRunnable
    /\ pos < Len(freqs)
    /\ ~Log10Raises(a)
    /\ LET freq == freqs[pos + 1] IN
        /\ calls' = Append(calls, [freq |-> freq, ok |-> TRUE, a |-> a, p |-> p])
        /\ yielded' = Append(yielded, MakeRow(freq, a, p))
        /\ row' = <<MakeRow(freq, a, p)>>
    /\ pos' = pos + 1
    /\ gen' = "yielded"
    /\ UNCHANGED <<mode, freqs, data, result, printed, received, caller, err>>
    /\ UNCHANGED <<phaseVars, dftVars, measVars, listVars, fetchVars>>

\* next(): measure raises an exception of kind k
GenMeasureRaises(k) ==
    /\ GenRunnable
    /\ pos < Len(freqs)
    /\ calls' = Append(calls, [freq |-> freqs[pos + 1], ok |-> FALSE,
                               a |-> NaN, p |-> 0])
    /\ pos' = pos + 1
    /\ Propagate(MeasureError(k, freqs[pos + 1]))
    /\ UNCHANGED <<mode, freqs, row, yielded, data, result, printed, received>>
    /\ UNCHANGED <<phaseVars, dftVars, measVars, listVars, fetchVars>>

\* next(): measure returns (a, p) and math.log10(a) raises
GenLogRaises(a, p) ==
    /\ GenRunnable
    /\ pos < Len(freqs)
    /\ Log10Raises(a)
    /\ calls' = Append(calls, [freq |-> freqs[pos + 1], ok |-> TRUE,
                               a |-> a, p |-> p])
    /\ pos' = pos + 1
    /\ Propagate(MathDomainError)
    /\ UNCHANGED <<mode, freqs, row, yielded, data, result, printed, received>>
    /\ UNCHANGED <<phaseVars, dftVars, measVars, listVars, fetchVars>>

\* next(): the frequency list is exhausted, the generator returns and the
\* caller's loop ends; freqresp returns pandas.DataFrame(data)
GenReturn ==
    /\ GenRunnable
    /\ pos = Len(freqs)
    /\ gen' = "returned"
    /\ caller' = "returned"
    /\ result' = IF mode = "freqresp" THEN <<data>> ELSE result
    /\ UNCHANGED <<mode, freqs, pos, calls, row, yielded, data, printed,
                   received, err>>
    /\ UNCHANGED <<phaseVars, dftVars, measVars, listVars, fetchVars>>

\* the body of the caller's for loop: data.append(row) in freqresp,
\* click.echo of the formatted row in freqresp_cli
Body ==
    /\ caller = "looping"
    /\ row # <<>>
    /\ data' = IF mode = "freqresp" THEN Append(data, row[1]) ELSE data
    /\ printed' = IF mode = "cli" THEN Append(printed, FormatRow(row[1]))
                  ELSE printed
    /\ received' = IF mode = "iter" THEN Append(received, row[1]) ELSE received
    /\ row' = <<>>
    /\ UNCHANGED <<mode, freqs, pos, gen, calls, yielded, result, caller, err>>
    /\ UNCHANGED <<phaseVars, dftVars, measVars, listVars, fetchVars>>

\* a direct caller of freqresp_iter stops iterating between two rows; the
\* suspended generator is closed and never resumed
Stop ==
    /\ mode = "iter"
    /\ caller = "looping"
    /\ row = <<>>
    /\ gen \in {"created", "yielded"}
    /\ caller' = "stopped"
    /\ gen' = "closed"
    /\ UNCHANGED <<mode, freqs, pos, calls, row, yielded, data, result,
                   printed, received, err>>
    /\ UNCHANGED <<phaseVars, dftVars, measVars, listVars, fetchVars>>

Next ==
    \/ Start
    \/ \E a \in MeasureRatios, p \in MeasurePhases : GenYield(a, p)
    \/ \E k \in MeasureErrorKinds : GenMeasureRaises(k)
    \/ \E a \in MeasureRatios, p \in MeasurePhases : GenLogRaises(a, p)
    \/ GenReturn
    \/ Body
    \/ Stop

Spec == Init /\ [][Next]_vars

---------------------------------------------------------------------------
(* Claims about the sweep, checked under Spec *)

IsPrefix(s, t) ==
    /\ Len(s) <= Len(t)
    /\ \A i \in 1..Len(s) : s[i] = t[i]

\* db is the integer part of 10 * log10(a) of a positive or non-finite a
DbIs(db, a) ==
    IF ~IsFinite(a) THEN db = a
    ELSE LET k == db[1]
             N == Pow(a[1], 10)
             D == Pow(a[2], 10)
         IN  /\ db[2] = 1
             /\ IF k >= 0
                THEN Pow(10, k) * D <= N /\ N < Pow(10, k + 1) * D
                ELSE D <= Pow(10, -k) * N /\ Pow(10, -k - 1) * N < D

\* the rows the caller's loop body has processed are exactly the rows yielded
DeliveredAll ==
    /\ mode = "iter" => received = yielded
    /\ mode = "freqresp" => data = yielded
    /\ mode = "cli" =>
          /\ Len(printed) = Len(yielded) + 1
          /\ printed[1] = Header
          /\ \A i \in 1..Len(yielded) : printed[i + 1] = FormatRow(yielded[i])

SweepEnded == caller \in {"returned", "raised"}

EveryCallReturned == \A i \in 1..Len(calls) : calls[i].ok

\* row i is the row of frequency i: its frequency, the ratio and phase that
\* measure returned for it, and dB = 10 * log10(ratio)
RowsMatchCalls ==
    /\ Len(yielded) <= Len(freqs)
    /\ Len(yielded) <= Len(calls)
    /\ \A i \in 1..Len(yielded) :
          /\ yielded[i].freq = freqs[i]
          /\ calls[i].freq = freqs[i]
          /\ calls[i].ok
          /\ yielded[i].amplitude = calls[i].a
          /\ yielded[i].phase = calls[i].p
          /\ DbIs(yielded[i].dB, yielded[i].amplitude)

OneRowPerFrequency ==
    /\ caller = "returned"
    /\ Len(yielded) = Len(freqs)
    /\ mode = "freqresp" => result = <<yielded>>

\* C1 as stated: whenever measure has returned on every point, the ended
\* sweep has produced one row per frequency, in order, each with its
\* frequency, the ratio and phase measure returned and dB = 10 * log10(ratio)
C1_Original ==
    /\ RowsMatchCalls
    /\ (SweepEnded /\ EveryCallReturned) => OneRowPerFrequency

\* C1 amended: for any frequency list and any measure function that returns
\* on every point a ratio math.log10 accepts (not zero, negative or -inf),
\* the sweep (freqresp_iter, and the table freqresp builds from it) produces
\* exactly one row per frequency, in the order generated, each row carrying
\* that frequency, the ratio and phase measure returned for it and
\* dB = 10 * log10(ratio); a row once appended is never changed or removed.
C1_SweepRows ==
    /\ [](/\ RowsMatchCalls
          /\ (SweepEnded /\ EveryCallReturned
                /\ \A i \in 1..Len(calls) : ~Log10Raises(calls[i].a))
             => OneRowPerFrequency)
    /\ [][/\ IsPrefix(yielded, yielded')
          /\ IsPrefix(data, data')
          /\ (result # <<>> => result' = result)]_vars

C1_Witness ==
    /\ mode = "freqresp"
    /\ caller = "returned"
    /\ Len(freqs) = MaxPoints
    /\ result = <<yielded>>
    /\ Len(yielded) = MaxPoints
    /\ yielded[1].amplitude = <<1, 2>> /\ yielded[1].dB = <<-4, 1>>
    /\ yielded[2].amplitude = <<2, 1>> /\ yielded[2].dB = <<3, 1>>
    /\ yielded[3].amplitude = <<1, 1>> /\ yielded[3].dB = <<0, 1>>

\* C2: when the measurement or the dB computation of point k fails, every
\* row computed for points 0..k-1 has been delivered to the caller: yielded
\* by freqresp_iter, printed by freqresp_cli, in the table freqresp returns
C2_PartialRowsDelivered ==
    caller = "raised" =>
        \A i \in 1..Len(yielded) :
            /\ mode = "iter" => Len(received) >= i /\ received[i] = yielded[i]
            /\ mode = "cli" =>
                  /\ Len(printed) >= i + 1
                  /\ printed[i + 1] = FormatRow(yielded[i])
            /\ mode = "freqresp" =>
                  /\ result # <<>>
                  /\ Len(result[1]) >= i
                  /\ result[1][i] = yielded[i]

\* C3: an error at one point aborts the sweep: measure was called once for
\* the failed point and for no later frequency, no row is emitted for the
\* failed point, and the error the caller gets identifies the offending
\* frequency and the error kind
C3_AbortIdentifiesFrequency ==
    caller = "raised" =>
        /\ gen = "raised"
        /\ Len(calls) = pos
        /\ Len(yielded) = pos - 1
        /\ \A i \in 1..Len(calls) : calls[i].freq = freqs[i]
        /\ err # <<>>
        /\ err[1].type # ""
        /\ err[1].freq = <<freqs[pos]>>

\* C4: sweep points are measured one at a time and lazily: measure is called
\* for one more point only when the caller asks for the next row, having
\* received and processed every row yielded so far; once the caller has
\* stopped iterating, measure is not called again and the rows received stay
\* as they are
C4_LazyOneAtATime ==
    [][/\ calls' # calls =>
            /\ caller = "looping"
            /\ row = <<>>
            /\ DeliveredAll
            /\ Len(calls) = Len(yielded)
            /\ Len(calls') = Len(calls) + 1
            /\ IsPrefix(calls, calls')
       /\ caller = "stopped" =>
            /\ calls' = calls
            /\ yielded' = yielded
            /\ received' = received]_vars

C4_Witness ==
    /\ mode = "iter"
    /\ caller = "stopped"
    /\ Len(freqs) = MaxPoints
    /\ Len(calls) = 1
    /\ Len(received) = 1

\* C7: every row emitted has an amplitude ratio > 0 and a defined dB value
C7_RatioPositive ==
    \A i \in 1..Len(yielded) :
        /\ yielded[i].amplitude[1] > 0
        /\ yielded[i].dB # NaN

---------------------------------------------------------------------------
(* The phase delta of measure_response, on every pair of whole-degree      *)
(* channel phases in (-180, 180]                                           *)

Phases == (1 - HalfTurn)..HalfTurn

InitPhase ==
    /\ p1 \in Phases
    /\ p2 \in Phases
    /\ phase_delta = <<>>
    /\ InitSweepIdle /\ InitDftIdle /\ InitMeasIdle
    /\ InitListIdle /\ InitFetchIdle

ComputePhaseDelta ==
    /\ phase_delta = <<>>
    /\ phase_delta' = <<PhaseDelta(p1, p2)>>
    /\ UNCHANGED <<p1, p2>>
    /\ UNCHANGED <<sweepVars, dftVars, measVars, listVars, fetchVars>>

NextPhase == ComputePhaseDelta

SpecPhase == InitPhase /\ [][NextPhase]_vars

\* C5 as stated: the phase delta lies in (-180, 180] and is congruent to
\* p1 - p2 modulo 360
C5_Original ==
    phase_delta # <<>> =>
        /\ -HalfTurn < phase_delta[1]
        /\ phase_delta[1] <= HalfTurn
        /\ (phase_delta[1] - (p1 - p2)) % FullTurn = 0

\* C5 amended: for every pair of whole-degree channel phases p1, p2 in
\* (-180, 180], the phase delta lies in the half-open interval [-180, 180)
\* (180 is never returned, -180 is) and is congruent to p1 - p2 modulo 360
C5_PhaseDeltaRange ==
    phase_delta # <<>> =>
        /\ -HalfTurn <= phase_delta[1]
        /\ phase_delta[1] < HalfTurn
        /\ (phase_delta[1] - (p1 - p2)) % FullTurn = 0

C5_Witness == p1 = 180 /\ p2 = 0 /\ phase_delta = <<-180>>

\* C6 as stated: p1 = 170 and p2 = -170 give the phase delta 20
C6_Original ==
    (p1 = 170 /\ p2 = -170 /\ phase_delta # <<>>) => phase_delta = <<20>>

\* C6 amended: p1 = 170 and p2 = -170 give the phase delta -20 (not 340 or
\* -340, and not 20)
C6_PhaseDeltaWrap ==
    (p1 = 170 /\ p2 = -170 /\ phase_delta # <<>>) => phase_delta = <<-20>>

C6_Witness == p1 = 170 /\ p2 = -170 /\ phase_delta = <<-20>>

---------------------------------------------------------------------------
(* DS1054Z.dft_at_freq, statement by statement.  The capture buffer is its *)
(* length datalen; sample_interval is 1 / drate seconds, so that           *)
(* (1.0 / freq) / sample_interval is the rational drate / dfreq.           *)

\* Python's round() of the rational n / d (n >= 0, d > 0): to the nearest
\* integer, a tie to the even one
RoundHalfEven(n, d) ==
    LET q == n \div d
        r == n % d
    IN  IF 2 * r < d THEN q
        ELSE IF 2 * r > d THEN q + 1
        ELSE IF q % 2 = 0 THEN q ELSE q + 1

\* fewest samples per period dft_at_freq accepts
MinSamplesPerPeriod == 5

\* the resolution check with its limit one too low
ResolutionTooLowOffByOne(spp) == spp < MinSamplesPerPeriod - 1

\* if samples_per_period < 5
ResolutionTooLow(spp) == spp < MinSamplesPerPeriod

\* the duration check with a limit that an empty truncation passes
DurationTooShortOffByOne(n) == n < 0

\* if periods < 1
DurationTooShort(n) == n < 1

InitDft ==
    /\ dpc = "L213"
    /\ dfreq \in 1..MaxDftFreq
    /\ drate \in 1..MaxRate
    /\ datalen \in 0..MaxLen
    /\ samples_per_period = 0
    /\ periods = 0
    /\ samples = 0
    /\ divisors = <<>>
    /\ linspace = <<>>
    /\ dout = <<>>
    /\ InitSweepIdle /\ InitPhaseIdle /\ InitMeasIdle
    /\ InitListIdle /\ InitFetchIdle

\* samples_per_period = round((1.0 / freq) / sample_interval)
DftSamplesPerPeriod ==
    /\ dpc = "L213"
    /\ samples_per_period' = RoundHalfEven(drate, dfreq)
    /\ dpc' = "L217"
    /\ UNCHANGED <<dfreq, drate, datalen, periods, samples, divisors,
                   linspace, dout>>
    /\ UNCHANGED <<sweepVars, phaseVars, measVars, listVars, fetchVars>>

\* if samples_per_period < 5: raise Exception("DS1054Z too large timestep ...")
DftCheckResolution ==
    /\ dpc = "L217"
    /\ IF ResolutionTooLow(samples_per_period)
       THEN dpc' = "done" /\ dout' = <<"raise", "DS1054Z too large timestep">>
       ELSE dpc' = "L220" /\ dout' = dout
    /\ UNCHANGED <<dfreq, drate, datalen, samples_per_period, periods,
                   samples, divisors, linspace>>
    /\ UNCHANGED <<sweepVars, phaseVars, measVars, listVars, fetchVars>>

\* an extractor that takes the whole buffer, not whole periods of it
DftPeriodsWholeBuffer ==
    /\ dpc = "L220"
    /\ divisors' = Append(divisors, samples_per_period)
    /\ IF samples_per_period = 0
       THEN /\ dpc' = "done"
            /\ dout' = <<"raise", "ZeroDivisionError">>
            /\ UNCHANGED <<periods, samples>>
       ELSE /\ periods' = datalen \div samples_per_period
            /\ samples' = datalen
            /\ dpc' = "L223"
            /\ dout' = dout
    /\ UNCHANGED <<dfreq, drate, datalen, samples_per_period, linspace>>
    /\ UNCHANGED <<sweepVars, phaseVars, measVars, listVars, fetchVars>>

\* periods = len(data) // samples_per_period; samples = periods *
\* samples_per_period.  Python raises ZeroDivisionError on a zero divisor.
DftPeriods ==
    /\ dpc = "L220"
    /\ divisors' = Append(divisors, samples_per_period)
    /\ IF samples_per_period = 0
       THEN /\ dpc' = "done"
            /\ dout' = <<"raise", "ZeroDivisionError">>
            /\ UNCHANGED <<periods, samples>>
       ELSE /\ periods' = datalen \div samples_per_period
            /\ samples' = (datalen \div samples_per_period) * samples_per_period
            /\ dpc' = "L223"
            /\ dout' = dout
    /\ UNCHANGED <<dfreq, drate, datalen, samples_per_period, linspace>>
    /\ UNCHANGED <<sweepVars, phaseVars, measVars, listVars, fetchVars>>

\* if periods < 1: raise Exception("DS1054Z too small timestep ...")
DftCheckDuration ==
    /\ dpc = "L223"
    /\ IF DurationTooShort(periods)
       THEN dpc' = "done" /\ dout' = <<"raise", "DS1054Z too small timestep">>
       ELSE dpc' = "L226" /\ dout' = dout
    /\ UNCHANGED <<dfreq, drate, datalen, samples_per_period, periods,
                   samples, divisors, linspace>>
    /\ UNCHANGED <<sweepVars, phaseVars, measVars, listVars, fetchVars>>

\* exp = numpy.exp(tau * 1j * numpy.linspace(0, periods, samples,
\*                                           endpoint = False))
\* dft = numpy.sum(numpy.multiply(exp, data[:samples])) / samples
\* and the return of amplitude and phase.  A numpy division by zero gives
\* NaN, not an exception.  The record keeps the arguments of linspace and
\* the length of the slice data[:samples].
DftProject ==
    /\ dpc = "L226"
    /\ linspace' = <<[start |-> 0, stop |-> periods, num |-> samples,
                      slice |-> IF samples < datalen THEN samples ELSE datalen]>>
    /\ divisors' = Append(divisors, samples)
    /\ dout' = <<"return", IF samples = 0 THEN "nan" ELSE "value">>
    /\ dpc' = "done"
    /\ UNCHANGED <<dfreq, drate, datalen, samples_per_period, periods, samples>>
    /\ UNCHANGED <<sweepVars, phaseVars, measVars, listVars, fetchVars>>

NextDft ==
    \/ DftSamplesPerPeriod
    \/ DftCheckResolution
    \/ DftPeriods
    \/ DftCheckDuration
    \/ DftProject

SpecDft == InitDft /\ [][NextDft]_vars

\* C8: whenever round((1 / freq) / sample_interval) is less than 5 (that
\* is, the quotient is at most 4.5, the tie going to the even 4), for every
\* buffer length, dft_at_freq ends with the too-large-timestep error,
\* returns nothing and has divided by nothing, samples_per_period = 0
\* included
C8_InsufficientResolution ==
    (dpc = "done" /\ (2 * drate <= 9 * dfreq \/ samples_per_period < 5)) =>
        /\ 2 * drate <= 9 * dfreq
        /\ samples_per_period < 5
        /\ dout = <<"raise", "DS1054Z too large timestep">>
        /\ divisors = <<>>
        /\ linspace = <<>>

C8_Witness ==
    /\ dpc = "done"
    /\ samples_per_period = 0
    /\ datalen = MaxLen
    /\ dout = <<"raise", "DS1054Z too large timestep">>

\* C9: when samples_per_period >= 5, dft_at_freq ends with the
\* too-small-timestep error and returns nothing exactly when the buffer is
\* shorter than one period (len(data) < samples_per_period); the division by
\* the sample count is never reached with a zero count
C9_InsufficientDuration ==
    (dpc = "done" /\ samples_per_period >= 5) =>
        /\ dout = <<"raise", "DS1054Z too small timestep">>
              <=> datalen < samples_per_period
        /\ dout # <<"raise", "DS1054Z too small timestep">>
              => dout = <<"return", "value">> /\ samples > 0
        /\ \A i \in 1..Len(divisors) : divisors[i] # 0

C9_Witness ==
    /\ dpc = "done"
    /\ samples_per_period = 5
    /\ datalen = 4
    /\ dout = <<"raise", "DS1054Z too small timestep">>
    /\ divisors = <<5>>

---------------------------------------------------------------------------
(* measure_response, one instrument call per step.  cmds holds what is     *)
(* written to the generator and the scope, and the sleeps; voltages are in *)
(* mV.  Port timeouts are not modelled here: every command is answered.    *)

\* DS1054Z.vertical_scales, mV/div
vertical_scales ==
    <<10, 20, 50, 100, 200, 500, 1000, 2000, 5000, 10000, 20000, 50000, 100000>>

\* min(table, key = lambda x: abs(x - num/den)): the first entry at the
\* least distance
RECURSIVE NearestFrom(_, _, _, _, _)
NearestFrom(table, num, den, i, best) ==
    IF i > Len(table) THEN best
    ELSE IF Abs(table[i] * den - num) < Abs(best * den - num)
         THEN NearestFrom(table, num, den, i + 1, table[i])
         ELSE NearestFrom(table, num, den, i + 1, best)

Nearest(table, num, den) == NearestFrom(table, num, den, 2, table[1])

\* set_channel_scale called with round = False: the scale goes out as asked
ScaleCommandUnrounded(num, den) == num \div den

\* set_channel_scale(channel, num/den): the value written after CHANn:SCAL
ScaleCommand(num, den) == Nearest(vertical_scales, num, den)

\* memdepth = 120000, the default of measure_response
memdepth == 120000
\* maxblocklen of fetch_data_raw
maxblocklen == 250000
\* delay = 1.0, the default of measure_response, seconds
delay == 1
\* the starting scale of the auto-range, 1.0 V/div, in mV
StartScale == 1000
\* the headroom of the auto-range: each scale is set to peak / 4.0
Headroom == 4

\* delay += 40.0 / freq, seconds
AdjustedDelay(freq) == Frac(delay * freq + 40, freq)

\* fetch_data: the writes and queries of one screen-buffer fetch
FetchDataCmds(channel) ==
    << <<"WAV:SOUR", channel>>, <<"WAV:MODE", "NORM">>, <<"WAV:FORM", "BYTE">>,
       <<"WAV:STAR", 1>>, <<"WAV:STOP", 1200>>,
       <<"WAV:YINC?">>, <<"WAV:YOR?">>, <<"WAV:YREF?">>, <<"WAV:DATA?">> >>

Min(a, b) == IF a < b THEN a ELSE b

\* for blockstart in range(start, end, maxblocklen): the writes of each block
RECURSIVE FetchBlocks(_, _)
FetchBlocks(blockstart, end) ==
    IF blockstart >= end THEN <<>>
    ELSE << <<"WAV:START", blockstart>>,
            <<"WAV:STOP", Min(blockstart + maxblocklen, end)>>,
            <<"WAV:DATA?">> >>
         \o FetchBlocks(blockstart + maxblocklen, end)

\* a fetch that leaves the scope running again when it is done
DftCmdsRearm(channel) ==
    << <<"STOP">>, <<"WAV:SOUR", channel>>, <<"WAV:MODE", "RAW">>,
       <<"WAV:FORM", "BYTE">>, <<"WAV:YINC?">>, <<"WAV:YOR?">>, <<"WAV:YREF?">>,
       <<"ACQ:MDEPTH?">> >>
    \o FetchBlocks(1, memdepth)
    \o << <<"WAV:XINC?">>, <<"RUN">> >>

\* dft_at_freq(channel, freq, use_raw = True): fetch_data_raw(channel) with
\* start = 1 and end = the memory depth the scope reports, then
\* sample_interval()
DftCmds(channel) ==
    << <<"STOP">>, <<"WAV:SOUR", channel>>, <<"WAV:MODE", "RAW">>,
       <<"WAV:FORM", "BYTE">>, <<"WAV:YINC?">>, <<"WAV:YOR?">>, <<"WAV:YREF?">>,
       <<"ACQ:MDEPTH?">> >>
    \o FetchBlocks(1, memdepth)
    \o << <<"WAV:XINC?">> >>

\* the sweep frequencies measured, Hz
MeasFreqs == {100, 100000}
\* the peaks numpy.max(numpy.abs(fetch_data(channel))) of the auto-range, mV
Peaks == {0, 50, 140, 4000}
\* the phases dft_at_freq returns, degrees
DftPhases == {-170, 0, 170, 180}
\* what dft_at_freq raises
DftErrors == {"DS1054Z too large timestep", "DS1054Z too small timestep"}

InitMeasure ==
    /\ mpc = 14
    /\ mfreq \in MeasFreqs
    /\ autorange \in BOOLEAN
    /\ cmds = <<>>
    /\ acq \in {"run", "stop"}
    /\ chanscale \in {<<StartScale, StartScale>>, <<100, 5000>>}
    /\ peak = <<0, 0>>
    /\ dftres = <<>>
    /\ mret = <<>>
    /\ InitSweepIdle /\ InitPhaseIdle /\ InitDftIdle
    /\ InitListIdle /\ InitFetchIdle

\* one statement of measure_response: from line `from` to line `to`,
\* sending the commands c
Statement(from, to, c) ==
    /\ mpc = from
    /\ mpc' = to
    /\ cmds' = cmds \o c
    /\ UNCHANGED <<mfreq, autorange, mret>>
    /\ UNCHANGED <<sweepVars, phaseVars, dftVars, listVars, fetchVars>>

\* instruments.awg.set_frequency(1, freq)
MSetFrequency ==
    /\ Statement(14, 15, << <<"awg.set_frequency", 1, mfreq>> >>)
    /\ UNCHANGED <<acq, chanscale, peak, dftres>>

\* instruments.scope.run()
MRun ==
    /\ Statement(15, 16, << <<"RUN">> >>)
    /\ acq' = "run"
    /\ UNCHANGED <<chanscale, peak, dftres>>

\* instruments.scope.set_memdepth(memdepth)
MSetMemdepth ==
    /\ Statement(16, 17, << <<"ACQ:MDEPTH", memdepth>> >>)
    /\ UNCHANGED <<acq, chanscale, peak, dftres>>

\* instruments.scope.set_timebase(1.0 / freq); delay += 40.0 / freq;
\* if autorange.  The timebase written is the entry of DS1054Z.timebases
\* nearest to 1 / freq; the command is logged with freq.
MSetTimebase ==
    /\ Statement(17, IF autorange THEN 21 ELSE 32, << <<"TIM:SCAL", mfreq>> >>)
    /\ UNCHANGED <<acq, chanscale, peak, dftres>>

\* instruments.scope.set_channel_scale(channel, 1.0), lines 21 and 22
MAutoStartScale(channel) ==
    /\ Statement(20 + channel, 21 + channel,
                 << <<"CHAN:SCAL", channel, ScaleCommand(StartScale, 1)>> >>)
    /\ chanscale' = [chanscale EXCEPT ![channel] = ScaleCommand(StartScale, 1)]
    /\ UNCHANGED <<acq, peak, dftres>>

\* instruments.scope.force_trigger(), lines 23 and 32
MForceTrigger(line) ==
    /\ Statement(line, line + 1, << <<"TFORCE">> >>)
    /\ UNCHANGED <<acq, chanscale, peak, dftres>>

\* time.sleep(delay), lines 24 and 33
MSleep(line) ==
    /\ Statement(line, line + 1, << <<"sleep", AdjustedDelay(mfreq)>> >>)
    /\ UNCHANGED <<acq, chanscale, peak, dftres>>

\* instruments.scope.stop(), lines 25 and 34; line 34 goes on to line 36
MStop(line) ==
    /\ Statement(line, IF line = 34 THEN 36 ELSE line + 1, << <<"STOP">> >>)
    /\ acq' = "stop"
    /\ UNCHANGED <<chanscale, peak, dftres>>

\* a = np.max(np.abs(instruments.scope.fetch_data(channel))), lines 26 and
\* 27: the peak is whatever the screen buffer holds
MAutoPeak(channel, a) ==
    /\ Statement(25 + channel, 26 + channel, FetchDataCmds(channel))
    /\ peak' = [peak EXCEPT ![channel] = a]
    /\ UNCHANGED <<acq, chanscale, dftres>>

\* instruments.scope.set_channel_scale(channel, a / 4.0), lines 28 and 29
MAutoSetScale(channel) ==
    /\ Statement(27 + channel, 28 + channel,
                 << <<"CHAN:SCAL", channel,
                      ScaleCommand(peak[channel], Headroom)>> >>)
    /\ chanscale' = [chanscale EXCEPT
                        ![channel] = ScaleCommand(peak[channel], Headroom)]
    /\ UNCHANGED <<acq, peak, dftres>>

\* an auto-range that leaves the scope stopped
MAutoRunMissing ==
    /\ Statement(30, 32, <<>>)
    /\ UNCHANGED <<acq, chanscale, peak, dftres>>

\* instruments.scope.run(), line 30
MAutoRun ==
    /\ Statement(30, 32, << <<"RUN">> >>)
    /\ acq' = "run"
    /\ UNCHANGED <<chanscale, peak, dftres>>

\* a, p = instruments.scope.dft_at_freq(channel, freq, use_raw = True),
\* lines 36 and 37, returning amplitude a and phase p
MDft(channel, a, p) ==
    /\ Statement(35 + channel, IF channel = 1 THEN 37 ELSE 39, DftCmds(channel))
    /\ acq' = "stop"
    /\ dftres' = Append(dftres, <<a, p>>)
    /\ UNCHANGED <<chanscale, peak>>

\* dft_at_freq raises, and measure_response with it
MDftRaises(channel, e) ==
    /\ mpc = 35 + channel
    /\ mpc' = 0
    /\ cmds' = cmds \o DftCmds(channel)
    /\ acq' = "stop"
    /\ mret' = <<"raise", e>>
    /\ UNCHANGED <<mfreq, autorange, chanscale, peak, dftres>>
    /\ UNCHANGED <<sweepVars, phaseVars, dftVars, listVars, fetchVars>>

\* phase_delta = ((p1 - p2) + 180.0) % 360.0 - 180.0
\* return (a1 / a2, phase_delta)
MReturn ==
    /\ mpc = 39
    /\ mpc' = 0
    /\ mret' = <<"return", AmplitudeRatio(dftres[1][1], dftres[2][1]),
                 PhaseDelta(dftres[1][2], dftres[2][2])>>
    /\ UNCHANGED <<mfreq, autorange, cmds, acq, chanscale, peak, dftres>>
    /\ UNCHANGED <<sweepVars, phaseVars, dftVars, listVars, fetchVars>>

NextMeasure ==
    \/ MSetFrequency
    \/ MRun
    \/ MSetMemdepth
    \/ MSetTimebase
    \/ \E channel \in 1..2 : MAutoStartScale(channel)
    \/ \E line \in {23, 32} : MForceTrigger(line)
    \/ \E line \in {24, 33} : MSleep(line)
    \/ \E line \in {25, 34} : MStop(line)
    \/ \E channel \in 1..2, a \in Peaks : MAutoPeak(channel, a)
    \/ \E channel \in 1..2 : MAutoSetScale(channel)
    \/ MAutoRun
    \/ \E channel \in 1..2, a \in Amplitudes, p \in DftPhases : MDft(channel, a, p)
    \/ \E channel \in 1..2, e \in DftErrors : MDftRaises(channel, e)
    \/ MReturn

SpecMeasure == InitMeasure /\ [][NextMeasure]_vars

\* the CHANn:SCAL commands sent for a channel, in order
ScaleCommandsOf(channel) ==
    SelectSeq(cmds, LAMBDA c : c[1] = "CHAN:SCAL" /\ c[2] = channel)

ValidScales == {vertical_scales[i] : i \in 1..Len(vertical_scales)}

\* the auto-range has sent its scale command for the channel
AutoScaleSent(channel) == autorange /\ (mpc >= 28 + channel \/ mpc = 0)

\* C10 as stated: when the auto-range captures a zero peak on a channel, no
\* scale command is derived from it: the channel's scale stays as it was
\* (the starting scale, set by the one command sent so far) or the
\* measurement aborts with a no-signal error
C10_Original ==
    \A channel \in 1..2 :
        (AutoScaleSent(channel) /\ peak[channel] = 0) =>
            \/ /\ chanscale[channel] = StartScale
               /\ Len(ScaleCommandsOf(channel)) = 1
            \/ mret = <<"raise", "NoSignalDetected">>

\* C10 amended: when the auto-range captures a zero peak on a channel, no
\* zero or otherwise invalid scale command is sent: the scale 0 derived from
\* the peak is rounded to the nearest entry of vertical_scales, and the
\* command sent sets the channel to that smallest scale, 0.01 V/div; the
\* measurement goes on without a no-signal error.  Every scale command
\* carries an entry of vertical_scales.
C10_ZeroPeakScale ==
    /\ \A i \in 1..Len(cmds) :
          cmds[i][1] = "CHAN:SCAL" => cmds[i][3] \in ValidScales
    /\ \A channel \in 1..2 :
          (AutoScaleSent(channel) /\ peak[channel] = 0) =>
              /\ ScaleCommandsOf(channel) =
                    << <<"CHAN:SCAL", channel, StartScale>>,
                       <<"CHAN:SCAL", channel, 10>> >>
              /\ chanscale[channel] = 10
              /\ mret # <<"raise", "NoSignalDetected">>

C10_Witness ==
    /\ autorange
    /\ mpc = 0
    /\ peak = <<0, 4000>>
    /\ chanscale = <<10, 1000>>
    /\ mret[1] = "return"

\* the index of the last command c in cmds, 0 when there is none
LastIndexOf(c) ==
    LET at == {i \in 1..Len(cmds) : cmds[i] = c}
    IN  IF at = {} THEN 0 ELSE CHOOSE i \in at : \A j \in at : j <= i

\* the commands from index i on
CmdsFrom(i) == SubSeq(cmds, i, Len(cmds))

\* the channels selected as waveform source from index i on, in order
SourcesFrom(i) ==
    LET sel == SelectSeq(CmdsFrom(i), LAMBDA c : c[1] = "WAV:SOUR")
    IN  [k \in 1..Len(sel) |-> sel[k][2]]

\* the real capture is over: line 34 has stopped the scope
Captured == mpc \in {0, 36, 37, 39}

\* C13: in every measurement, with or without auto-ranging, the generator
\* frequency is set and the scope configured (run, memory depth, timebase)
\* first; then comes the auto-range sequence if asked for and only then;
\* then force trigger, the settle sleep and stop; only after that stop are
\* channel 1 and then channel 2 extracted from the raw buffer, and between
\* that stop and the end of the extraction of channel 2 the scope is neither
\* run nor triggered again: it stays stopped
C13_CaptureOrder ==
    /\ \A i \in 1..Len(cmds) :
          i <= 4 => cmds[i][1] =
              <<"awg.set_frequency", "RUN", "ACQ:MDEPTH", "TIM:SCAL">>[i]
    /\ (~ autorange) => \A i \in 1..Len(cmds) : cmds[i][1] # "CHAN:SCAL"
    /\ (mpc # 0 /\ mpc <= 32) =>
          \A i \in 1..Len(cmds) : cmds[i] # <<"WAV:MODE", "RAW">>
    /\ Captured =>
          LET t == LastIndexOf(<<"TFORCE">>)
          IN  /\ t = IF autorange THEN LastIndexOf(<<"RUN">>) + 1 ELSE 5
              /\ cmds[t + 1] = <<"sleep", AdjustedDelay(mfreq)>>
              /\ cmds[t + 2] = <<"STOP">>
              /\ \A i \in 1..(t + 2) : cmds[i] # <<"WAV:MODE", "RAW">>
              /\ \A i \in (t + 1)..Len(cmds) :
                    cmds[i][1] \notin {"RUN", "TFORCE", "SINGLE"}
              /\ SourcesFrom(t + 3) \in {<<>>, <<1>>, <<1, 2>>}
              /\ Len(dftres) = 2 => SourcesFrom(t + 3) = <<1, 2>>
              /\ acq = "stop"

C13_Witness ==
    /\ mpc = 0 /\ mret # <<>> /\ mret[1] = "return"
    /\ Len(dftres) = 2
    /\ SourcesFrom(LastIndexOf(<<"TFORCE">>)) = <<1, 2>>
    /\ acq = "stop"

\* the scale nearest to peak / Headroom among vertical_scales
IsNearestScale(v, pk) ==
    /\ v \in ValidScales
    /\ \A w \in ValidScales : Abs(Headroom * v - pk) <= Abs(Headroom * w - pk)

\* the commands of the auto-range sequence, by their place after the four
\* commands of the set-up
AutoRangeCommand(i) ==
    CASE i = 5 -> cmds[i] = <<"CHAN:SCAL", 1, StartScale>>
      [] i = 6 -> cmds[i] = <<"CHAN:SCAL", 2, StartScale>>
      [] i = 7 -> cmds[i] = <<"TFORCE">>
      [] i = 8 -> cmds[i] = <<"sleep", AdjustedDelay(mfreq)>>
      [] i = 9 -> cmds[i] = <<"STOP">>
      [] i = 10 -> cmds[i] = <<"WAV:SOUR", 1>>
      [] i = 19 -> cmds[i] = <<"WAV:SOUR", 2>>
      [] i = 28 -> /\ cmds[i][1] = "CHAN:SCAL" /\ cmds[i][2] = 1
                   /\ IsNearestScale(cmds[i][3], peak[1])
      [] i = 29 -> /\ cmds[i][1] = "CHAN:SCAL" /\ cmds[i][2] = 2
                   /\ IsNearestScale(cmds[i][3], peak[2])
      [] i = 30 -> cmds[i] = <<"RUN">>
      [] i = 31 -> cmds[i] = <<"TFORCE">>
      [] OTHER -> i < 31 => cmds[i][1] \notin {"RUN", "STOP", "TFORCE", "CHAN:SCAL",
                                               "sleep", "WAV:SOUR"}

\* C14: the auto-range sequence sets both channel scales to the starting
\* value, forces a trigger, waits the settle delay, stops acquisition,
\* captures both channels, sets each channel's scale from its own peak
\* divided by the headroom 4.0 (the nearest scale of the scope), and runs
\* the acquisition again; whenever the force trigger of the real capture is
\* issued, with or without auto-ranging, the scope is running
C14_AutoRangeSequence ==
    /\ autorange => \A i \in 5..Len(cmds) : AutoRangeCommand(i)
    /\ (autorange /\ mpc = 32) =>
          /\ Len(cmds) = 30
          /\ \A channel \in 1..2 :
                IsNearestScale(chanscale[channel], peak[channel])
    /\ mpc \in {32, 33} => acq = "run"

C14_Witness ==
    /\ autorange
    /\ mpc = 33
    /\ cmds[Len(cmds)] = <<"TFORCE">>
    /\ acq = "run"
    /\ peak = <<50, 4000>>
    /\ chanscale = <<10, 1000>>

\* C15: for every buffer length L and samples_per_period s >= 5 with
\* L >= s the extractor returns, and uses exactly the first periods * s
\* samples with periods = floor(L / s): the count used is a whole multiple
\* of s, at most L and greater than L - s; the reference exponential spans
\* exactly `periods` turns over that count, and the slice of the data
\* multiplied with it ends at that count
C15_WholePeriods ==
    (dpc = "done" /\ samples_per_period >= MinSamplesPerPeriod
                  /\ datalen >= samples_per_period) =>
        /\ dout[1] = "return"
        /\ periods * samples_per_period <= datalen
        /\ datalen < (periods + 1) * samples_per_period
        /\ samples = periods * samples_per_period
        /\ samples % samples_per_period = 0
        /\ samples <= datalen
        /\ samples > datalen - samples_per_period
        /\ linspace = <<[start |-> 0, stop |-> periods, num |-> samples,
                         slice |-> samples]>>

C15_Witness ==
    /\ dpc = "done"
    /\ samples_per_period = 5 /\ datalen = 12
    /\ periods = 2 /\ samples = 10
    /\ linspace[1].num = 10 /\ linspace[1].slice = 10

---------------------------------------------------------------------------
(* The frequency list of freqresp_iter: tasks/freqresp.py, lines 47-54 *)

MaxLinFreq == 10
MaxInterval == 3
MaxDecade == 5

\* 10 ** (k / 20) for k = 0..19, in units of 1/10000, to the nearest unit
Twentieths ==
    <<10000, 11220, 12589, 14125, 15849, 17783, 19953, 22387, 25119, 28184,
      31623, 35481, 39811, 44668, 50119, 56234, 63096, 70795, 79433, 89125>>

\* the values of log_stepsdec modelled: base = 10 ** (1.0 / log_stepsdec) is
\* then a whole number of twentieths of a decade
StepsPerDecade == {1, 2, 4, 5, 10, 20}

\* f > 0 as <<m, e>> with f = m * 10 ** e and m not a multiple of ten
RECURSIVE Normal(_, _)
Normal(m, e) == IF m % 10 = 0 THEN Normal(m \div 10, e + 1) ELSE <<m, e>>

\* base ** (first + x) with first = log(freq_min) / log(base), that is
\* fmin * 10 ** (x / stepsdec), as <<m, e>> standing for m * 10 ** e
PowBase(fmin, stepsdec, x) ==
    LET k == x * (20 \div stepsdec)
        f == Normal(fmin, 0)
    IN  <<f[1] * Twentieths[(k % 20) + 1], f[2] + (k \div 20) - 4>>

\* the number of decimal digits of m > 0
RECURSIVE Digits(_)
Digits(m) == IF m < 10 THEN 1 ELSE 1 + Digits(m \div 10)

\* sigfig.round(v, sigfigs = s) of v = <<m, e>>
RoundSig(v, s) ==
    LET d == Digits(v[1])
        k == d - s
        r == (v[1] + 5 * Pow(10, k - 1)) \div Pow(10, k)
    IN  IF k <= 0 THEN v ELSE <<r, v[2] + k>>

\* <<m, e>> in 1/100 Hz
CentiHz(v) ==
    IF v[2] + 2 >= 0 THEN v[1] * Pow(10, v[2] + 2)
    ELSE v[1] \div Pow(10, -(v[2] + 2))

\* fmin * 10 ** (x / stepsdec) >= fmax
ReachesUp(fmin, fmax, stepsdec, x) ==
    LET v == PowBase(fmin, stepsdec, x)
    IN  IF v[2] >= 0 THEN v[1] * Pow(10, v[2]) >= fmax
        ELSE v[1] \div Pow(10, -v[2]) >= fmax

\* the least x >= from with fmin * 10 ** (x / stepsdec) >= fmax
RECURSIVE CeilLog(_, _, _, _)
CeilLog(fmin, fmax, stepsdec, from) ==
    IF ReachesUp(fmin, fmax, stepsdec, from) THEN from
    ELSE CeilLog(fmin, fmax, stepsdec, from + 1)

\* fmin * 10 ** (x / stepsdec) <= fmax
ReachesDown(fmin, fmax, stepsdec, x) ==
    LET v == PowBase(fmin, stepsdec, x)
    IN  IF v[2] >= 0 THEN v[1] * Pow(10, v[2]) <= fmax
        ELSE (v[1] + Pow(10, -v[2]) - 1) \div Pow(10, -v[2]) <= fmax

\* the greatest x >= from with fmin * 10 ** (x / stepsdec) <= fmax
RECURSIVE FloorLog(_, _, _, _)
FloorLog(fmin, fmax, stepsdec, from) ==
    IF ReachesDown(fmin, fmax, stepsdec, from + 1)
    THEN FloorLog(fmin, fmax, stepsdec, from + 1)
    ELSE from

\* ceil(log(freq_max / freq_min) / log(base)) of the real numbers
ExactSteps(fmin, fmax, stepsdec) ==
    IF fmax >= fmin THEN CeilLog(fmin, fmax, stepsdec, 0)
    ELSE -FloorLog(fmax, fmin, stepsdec, 0)

\* freq_max / freq_min is a whole power of base: the quotient of line 52 is
\* a whole number in the real numbers
WholeQuotient(fmin, fmax, stepsdec) ==
    IF fmax >= fmin
    THEN ReachesDown(fmin, fmax, stepsdec, CeilLog(fmin, fmax, stepsdec, 0))
    ELSE ReachesUp(fmax, fmin, stepsdec, FloorLog(fmax, fmin, stepsdec, 0))

\* the values of log_stepsdec for which the float quotient of line 52 of a
\* rising sweep has the ceiling of the real quotient (29.999999999999993
\* for 100, 100000, 10); for the others it falls above a whole real
\* quotient (4.000000000000001 for 1, 10, 4)
QuotientNotAbove == {1, 2, 5, 10}

\* steps = math.ceil(math.log(freq_max / freq_min) / math.log(base)) in
\* floats: where the real quotient is a whole number the float quotient
\* falls on either side of it, for a falling sweep (-0.9999999999999998 for
\* 10, 1, 1) and for a rising sweep with log_stepsdec outside
\* QuotientNotAbove; both ceilings are outcomes there
Steps(fmin, fmax, stepsdec) ==
    LET exact == ExactSteps(fmin, fmax, stepsdec)
    IN  IF /\ WholeQuotient(fmin, fmax, stepsdec)
           /\ fmax < fmin \/ stepsdec \notin QuotientNotAbove
        THEN {exact, exact + 1}
        ELSE {exact}

\* one significant figure fewer than the source keeps
SigFigsOneFewer(stepsdec) == (stepsdec + 9) \div 10

\* sigfigs = math.ceil(log_stepsdec / 10 + 1)
SigFigs(stepsdec) == (stepsdec + 9) \div 10 + 1

\* [sigfig.round(base ** (first + x), sigfigs = sigfigs)
\*     for x in range(steps + 1)], in 1/100 Hz
LogFreqs(fmin, stepsdec, steps) ==
    [x \in 1..(steps + 1) |->
        CentiHz(RoundSig(PowBase(fmin, stepsdec, x - 1), SigFigs(stepsdec)))]

\* the frequencies of the logarithmic sweeps modelled: 1, 2 and 5 times a
\* power of ten, up to 10 ** MaxDecade
DecadeFreqs ==
    {m * Pow(10, a) : m \in {1, 2, 5}, a \in 0..(MaxDecade - 1)}
        \cup {Pow(10, MaxDecade)}

\* a linear sweep of whole numbers (log_stepsdec keeps its default), or a
\* logarithmic sweep (lin_interval = None, or 0, which is as false)
InitList ==
    /\ gpc = "args"
    /\ genfreqs = <<>>
    /\ \/ /\ freq_min \in 0..MaxLinFreq
          /\ freq_max \in 0..MaxLinFreq
          /\ lin_interval \in (-MaxInterval..MaxInterval) \ {0}
          /\ log_stepsdec = 10
       \/ /\ freq_min \in DecadeFreqs \cup {0}
          /\ freq_max \in DecadeFreqs \cup {0}
          /\ lin_interval = 0
          /\ log_stepsdec \in StepsPerDecade
    /\ InitSweepIdle /\ InitPhaseIdle /\ InitDftIdle /\ InitMeasIdle
    /\ InitFetchIdle

\* lines 47-48
ListLinear ==
    /\ gpc = "args"
    /\ lin_interval # 0
    /\ genfreqs' = Arange(freq_min, freq_max, lin_interval)
    /\ gpc' = "done"
    /\ UNCHANGED <<freq_min, freq_max, log_stepsdec, lin_interval>>
    /\ UNCHANGED <<sweepVars, phaseVars, dftVars, measVars, fetchVars>>

\* lines 50-54
ListLogarithmic ==
    /\ gpc = "args"
    /\ lin_interval = 0
    /\ freq_min > 0 /\ freq_max > 0
    /\ \E steps \in Steps(freq_min, freq_max, log_stepsdec) :
          genfreqs' = LogFreqs(freq_min, log_stepsdec, steps)
    /\ gpc' = "done"
    /\ UNCHANGED <<freq_min, freq_max, log_stepsdec, lin_interval>>
    /\ UNCHANGED <<sweepVars, phaseVars, dftVars, measVars, fetchVars>>

\* line 52: freq_max / freq_min raises ZeroDivisionError for freq_min = 0,
\* math.log(0.0) raises ValueError for freq_max = 0
ListLogarithmicRaises ==
    /\ gpc = "args"
    /\ lin_interval = 0
    /\ freq_min = 0 \/ freq_max = 0
    /\ gpc' = IF freq_min = 0 THEN "ZeroDivisionError" ELSE "ValueError"
    /\ UNCHANGED <<freq_min, freq_max, log_stepsdec, lin_interval, genfreqs>>
    /\ UNCHANGED <<sweepVars, phaseVars, dftVars, measVars, fetchVars>>

NextList == ListLinear \/ ListLogarithmic \/ ListLogarithmicRaises

SpecList == InitList /\ [][NextList]_vars

StrictlyIncreasing(f) == \A i \in 1..(Len(f) - 1) : f[i] < f[i + 1]

\* the values freq_min + k * lin_interval, k = 0, 1, 2, ..., taken while
\* they are strictly less than freq_max
IsHalfOpenRange(f) ==
    /\ \A i \in 1..Len(f) :
          f[i] = freq_min + (i - 1) * lin_interval /\ f[i] < freq_max
    /\ ~ (freq_min + Len(f) * lin_interval < freq_max)

\* C11 as stated: for every non-zero lin_interval the list made is exactly
\* freq_min + k * lin_interval for k = 0, 1, 2, ... while the value is
\* strictly less than freq_max
C11_Original ==
    (gpc = "done" /\ lin_interval # 0) => IsHalfOpenRange(genfreqs)

\* C11 amended: for every positive lin_interval (and whole-number
\* arguments) the list made is exactly freq_min + k * lin_interval for
\* k = 0, 1, 2, ... while the value is strictly less than freq_max, the stop
\* value excluded; for 0, 10, 2 it is [0, 2, 4, 6, 8].  A negative
\* lin_interval counts down from freq_min while the value is strictly
\* greater than freq_max.  A non-zero lin_interval never takes the
\* logarithmic branch.
C11_LinearList ==
    /\ (gpc = "done" /\ lin_interval > 0) => IsHalfOpenRange(genfreqs)
    /\ (gpc = "done" /\ lin_interval < 0) =>
          /\ \A i \in 1..Len(genfreqs) :
                /\ genfreqs[i] = freq_min + (i - 1) * lin_interval
                /\ genfreqs[i] > freq_max
          /\ ~ (freq_min + Len(genfreqs) * lin_interval > freq_max)
    /\ (gpc = "done" /\ freq_min = 0 /\ freq_max = 10 /\ lin_interval = 2) =>
          genfreqs = <<0, 2, 4, 6, 8>>
    /\ lin_interval # 0 => gpc \in {"args", "done"}

C11_Witness ==
    /\ gpc = "done"
    /\ freq_min = 0 /\ freq_max = 10 /\ lin_interval = 2
    /\ genfreqs = <<0, 2, 4, 6, 8>>
\* C12: the logarithmic list is strictly increasing, so has no duplicates,
\* after the rounding to sigfigs significant figures; for 100, 100000, 10 it
\* starts at 100, has exactly 31 points, and its last point does not exceed
\* 100000 * base with base = 10 ** (1 / 10)
C12_LogList ==
    (gpc = "done" /\ lin_interval = 0) =>
        /\ StrictlyIncreasing(genfreqs)
        /\ (freq_min = 100 /\ freq_max = 100000 /\ log_stepsdec = 10) =>
              /\ Len(genfreqs) = 31
              /\ genfreqs[1] = 100 * 100
              /\ genfreqs[31] * 100 <= freq_max * Twentieths[3]

C12_Witness ==
    /\ gpc = "done" /\ lin_interval = 0
    /\ freq_min = 100 /\ freq_max = 100000 /\ log_stepsdec = 10
    /\ Len(genfreqs) = 31
    /\ genfreqs[2] = 130 * 100
---------------------------------------------------------------------------
(* DS1054Z.fetch_data_raw, block by block: instruments/DS1054Z.py, 178-202 *)

MaxBlocks == 3

\* the values of start modelled
FetchStarts == {1, 2, maxblocklen, maxblocklen + 1}

\* the values of end modelled, given or read with ACQ:MDEPTH?: around the
\* whole multiples of maxblocklen, and the default depth of measure_response
FetchEnds ==
    {k * maxblocklen + d : k \in 0..MaxBlocks, d \in 0..2} \cup {memdepth}

InitFetch ==
    /\ fpc = "setup"
    /\ fstart \in FetchStarts
    /\ fend \in {e \in FetchEnds : e >= fstart}
    /\ bstart = 1
    /\ requests = <<>>
    /\ InitSweepIdle /\ InitPhaseIdle /\ InitDftIdle /\ InitMeasIdle
    /\ InitListIdle

\* lines 180-195: the writes and queries before the loop, and range(start,
\* end, maxblocklen) set up
FetchSetup ==
    /\ fpc = "setup"
    /\ fpc' = "loop"
    /\ bstart' = fstart
    /\ UNCHANGED <<fstart, fend, requests>>
    /\ UNCHANGED <<sweepVars, phaseVars, dftVars, measVars, listVars>>

\* lines 196-200: one pass of the loop
FetchBlock ==
    /\ fpc = "loop"
    /\ bstart < fend
    /\ requests' = Append(requests, <<bstart, Min(bstart + maxblocklen, fend)>>)
    /\ bstart' = bstart + maxblocklen
    /\ UNCHANGED <<fpc, fstart, fend>>
    /\ UNCHANGED <<sweepVars, phaseVars, dftVars, measVars, listVars>>

\* line 202: the range is used up
FetchReturn ==
    /\ fpc = "loop"
    /\ bstart >= fend
    /\ fpc' = "done"
    /\ UNCHANGED <<fstart, fend, bstart, requests>>
    /\ UNCHANGED <<sweepVars, phaseVars, dftVars, measVars, listVars>>

NextFetch == FetchSetup \/ FetchBlock \/ FetchReturn

SpecFetch == InitFetch /\ [][NextFetch]_vars

\* C16: for every 1 <= start <= end the blocks requested, WAV:START to
\* WAV:STOP with both ends included, cover every sample index from start to
\* end exactly once and in increasing order: the first block begins at
\* start, each next block begins right after the one before ends, the last
\* ends at end, and no block spans more than maxblocklen samples
C16_BlocksCoverOnce ==
    fpc = "done" =>
        /\ Len(requests) >= 1
        /\ requests[1][1] = fstart
        /\ requests[Len(requests)][2] = fend
        /\ \A i \in 1..(Len(requests) - 1) :
              requests[i + 1][1] = requests[i][2] + 1
        /\ \A i \in 1..Len(requests) :
              /\ requests[i][1] <= requests[i][2]
              /\ requests[i][2] - requests[i][1] + 1 <= maxblocklen

=============================================================================
